---- MODULE Spec2Model ----
(***************************************************************************)
(* A model of the United States Tax Court scraper                          *)
(* (juriscraper/opinions/united_states/federal_special/tax.py).            *)
(*                                                                         *)
(* Strings are sequences of one-character strings, so that substring       *)
(* tests, str.replace, str.strip, str.lower and the regular expressions    *)
(* are computed character by character, as Python computes them.           *)
(***************************************************************************)
EXTENDS Integers, Sequences, FiniteSets, TLC

VARIABLES
    pc,                     \* position of the running call
    cite,                   \* the parts the scraped text was assembled from
    scraped_text,           \* extract_from_text's argument
    metadata,               \* extract_from_text's return value
    searched,               \* the regexes re.search was called with, in order
    html,                   \* self.html: the result rows of the rendered page
    parsed,                 \* the sequences returned by the four _get_* methods
    status,                 \* self.status
    case_date,              \* self.case_date
    backwards_days,         \* self.backwards_days
    downloads,              \* per anchor date, the number of _download calls
    last_call,              \* the last backscrape call and how it ended
    back_scrape_iterable    \* self.back_scrape_iterable, while being built

vars == <<pc, cite, scraped_text, metadata, searched, html, parsed, status,
          case_date, backwards_days, downloads, last_call, back_scrape_iterable>>

(***************************************************************************)
(* Characters and Python's str methods                                     *)
(***************************************************************************)
Uppers == <<"A","B","C","D","E","F","G","H","I","J","K","L","M","N","O","P","Q","R","S","T","U","V","W","X","Y","Z">>
Lowers == <<"a","b","c","d","e","f","g","h","i","j","k","l","m","n","o","p","q","r","s","t","u","v","w","x","y","z">>
Digits == {"0","1","2","3","4","5","6","7","8","9"}
Whitespace == {" ", "\t", "\n", "\r"}

IsUpper(c) == \E k \in 1..Len(Uppers) : Uppers[k] = c
IsLower(c) == \E k \in 1..Len(Lowers) : Lowers[k] = c

\* str.lower() / str.upper() on one character
ToLower(c) == IF IsUpper(c) THEN Lowers[CHOOSE k \in 1..Len(Uppers) : Uppers[k] = c] ELSE c
ToUpper(c) == IF IsLower(c) THEN Uppers[CHOOSE k \in 1..Len(Lowers) : Lowers[k] = c] ELSE c

Lower(s) == [k \in 1..Len(s) |-> ToLower(s[k])]
Upper(s) == [k \in 1..Len(s) |-> ToUpper(s[k])]

\* \w of the re module, on the characters of the model
IsWord(c) == c \in Digits \/ IsUpper(c) \/ IsLower(c) \/ c = "_"

\* sub occurs in s at index k
OccursAt(s, sub, k) ==
    /\ k >= 1
    /\ k + Len(sub) - 1 <= Len(s)
    /\ \A j \in 1..Len(sub) : s[k + j - 1] = sub[j]

\* Python's  sub in s
Contains(s, sub) == \E k \in 1..(Len(s) + 1) : OccursAt(s, sub, k)

\* Python's  s.replace(old, new): every non-overlapping occurrence, left to right
RECURSIVE ReplaceFrom(_, _, _, _)
ReplaceFrom(s, old, new, k) ==
    LET found == {j \in k..Len(s) : OccursAt(s, old, j)}
    IN  IF found = {} THEN SubSeq(s, k, Len(s))
        ELSE LET j == CHOOSE x \in found : \A y \in found : x <= y
             IN  SubSeq(s, k, j - 1) \o new \o ReplaceFrom(s, old, new, j + Len(old))

Replace(s, old, new) == ReplaceFrom(s, old, new, 1)

\* Python's  s.strip()
RECURSIVE LStrip(_)
LStrip(s) == IF Len(s) > 0 /\ Head(s) \in Whitespace THEN LStrip(Tail(s)) ELSE s
RECURSIVE RStrip(_)
RStrip(s) ==
    IF Len(s) > 0 /\ s[Len(s)] \in Whitespace THEN RStrip(SubSeq(s, 1, Len(s) - 1)) ELSE s
Strip(s) == RStrip(LStrip(s))

(***************************************************************************)
(* The re module: a backtracking matcher over the syntax tree of a         *)
(* pattern compiled with re.VERBOSE | re.IGNORECASE.  A pattern is a       *)
(* sequence of nodes; alternatives are tried left to right and quantifiers *)
(* are greedy, so the first success is the match Python returns.           *)
(***************************************************************************)
\* atoms: what one character is matched against
Chr(c) == [a |-> "chr", v |-> c]          \* a literal character (IGNORECASE)
Class(name) == [a |-> "class", v |-> name]  \* [0-9], \d, \s or .

AtomMatches(atom, c) ==
    IF atom.a = "chr" THEN ToLower(c) = ToLower(atom.v)
    ELSE CASE atom.v = "[0-9]" -> c \in Digits
           [] atom.v = "\\d"   -> c \in Digits
           [] atom.v = "\\s"   -> c \in Whitespace
           [] atom.v = "."     -> c # "\n"
           [] OTHER            -> FALSE

\* nodes
One(atom) == [k |-> "rep", atom |-> atom, min |-> 1, max |-> 1, unbounded |-> FALSE]
Rep(atom, lo, hi) == [k |-> "rep", atom |-> atom, min |-> lo, max |-> hi, unbounded |-> FALSE]
AtLeast(atom, lo) == [k |-> "rep", atom |-> atom, min |-> lo, max |-> lo, unbounded |-> TRUE]
Group(n, body) == [k |-> "group", n |-> n, body |-> body]
Alt(left, right) == [k |-> "alt", left |-> left, right |-> right]
WordBoundary == [k |-> "wb"]
GroupOpen(n) == [k |-> "open", n |-> n]
GroupClose(n) == [k |-> "close", n |-> n]

\* a run of literal characters (IGNORECASE)
Lit(s) == <<[k |-> "lit", s |-> s]>>

\* the literal s stands in t at index i, letter case ignored
LitMatches(t, s, i) ==
    /\ i + Len(s) - 1 <= Len(t)
    /\ \A j \in 1..Len(s) : ToLower(t[i + j - 1]) = ToLower(s[j])

NGroups == 1..10
NoSpan == <<0, 0>>          \* a group that did not take part: group(n) is None
NoCaps == [n \in NGroups |-> NoSpan]
NoMatch == [ok |-> FALSE, start |-> 0, end |-> 0, caps |-> NoCaps]

\* the number of characters from index i on that the atom matches, up to limit
RunLen(t, atom, i, limit) ==
    LET top == IF Len(t) - i + 1 < limit THEN Len(t) - i + 1 ELSE limit
        Fits(n) == \A j \in 0..(n - 1) : AtomMatches(atom, t[i + j])
    IN  CHOOSE n \in 0..top : Fits(n) /\ (n = top \/ ~AtomMatches(atom, t[i + n]))

\* \b at index i: exactly one of t[i-1], t[i] is a word character
AtWordBoundary(t, i) ==
    LET before == i > 1 /\ IsWord(t[i - 1])
        after == i <= Len(t) /\ IsWord(t[i])
    IN  before # after

RECURSIVE MatchSeq(_, _, _, _)
RECURSIVE TryCounts(_, _, _, _, _, _)

\* match the nodes against t from index i; caps holds the groups closed so far
\* (an open group holds <<start, 0>>)
MatchSeq(t, nodes, i, caps) ==
    IF Len(nodes) = 0 THEN [ok |-> TRUE, start |-> 0, end |-> i, caps |-> caps]
    ELSE LET n == Head(nodes)
             rest == Tail(nodes)
         IN  CASE n.k = "lit" ->
                    IF LitMatches(t, n.s, i) THEN MatchSeq(t, rest, i + Len(n.s), caps)
                    ELSE NoMatch
               [] n.k = "rep" ->
                    LET limit == IF n.unbounded THEN Len(t) ELSE n.max
                        run == RunLen(t, n.atom, i, limit)
                    IN  IF run < n.min THEN NoMatch
                        ELSE TryCounts(t, rest, i, caps, run, n.min)
               [] n.k = "group" ->
                    MatchSeq(t, <<GroupOpen(n.n)>> \o n.body \o <<GroupClose(n.n)>> \o rest, i, caps)
               [] n.k = "open" ->
                    MatchSeq(t, rest, i, [caps EXCEPT ![n.n] = <<i, 0>>])
               [] n.k = "close" ->
                    MatchSeq(t, rest, i, [caps EXCEPT ![n.n] = <<caps[n.n][1], i>>])
               [] n.k = "alt" ->
                    LET first == MatchSeq(t, n.left \o rest, i, caps)
                    IN  IF first.ok THEN first ELSE MatchSeq(t, n.right \o rest, i, caps)
               [] n.k = "wb" ->
                    IF AtWordBoundary(t, i) THEN MatchSeq(t, rest, i, caps) ELSE NoMatch

\* a greedy quantifier: the longest count first, then one less, down to lo
TryCounts(t, rest, i, caps, count, lo) ==
    LET r == MatchSeq(t, rest, i + count, caps)
    IN  IF r.ok THEN r
        ELSE IF count > lo THEN TryCounts(t, rest, i, caps, count - 1, lo)
        ELSE NoMatch

\* re.search(regex, t): the match at the least index where one begins
Search(regex, t) ==
    LET Indexes == 1..(Len(t) + 1)
        At(s) == MatchSeq(t, regex, s, NoCaps)
        first == CHOOSE s \in Indexes : At(s).ok /\ \A u \in 1..(s - 1) : ~At(u).ok
    IN  IF \E s \in Indexes : At(s).ok
        THEN [At(first) EXCEPT !.start = first]
        ELSE NoMatch

\* values of the returned dictionary: a missing key, Python's None, a string
Unset == <<"unset">>
PyNone == <<"None">>
Str(s) == <<"str", s>>

\* match.group(): the matched text
MatchText(t, m) == SubSeq(t, m.start, m.end - 1)

\* match.group(n)
MatchGroup(t, m, n) ==
    IF m.caps[n] = NoSpan THEN PyNone
    ELSE Str(SubSeq(t, m.caps[n][1], m.caps[n][2] - 1))

(***************************************************************************)
(* extract_from_text (tax.py 155-213)                                      *)
(***************************************************************************)
\* the primary regex with \s in place of \s{1,}
tax_court_reports_regex_OneWhitespace ==
    <<Group(1, <<Rep(Class("[0-9]"), 1, 4)>>), One(Class("\\s"))>>
    \o Lit(<<"U","N","I","T","E","D"," ","S","T","A","T","E","S"," ","T","A","X"," ","C","O","U","R","T"," ","R","E","P","O","R","T">>)
    \o <<Rep(Chr("S"), 0, 1), One(Class("\\s")), One(Chr("(")),
         Group(2, <<Rep(Class("\\d"), 1, 4)>>), One(Chr(")"))>>

\* ([0-9]{1,4})\s{1,} UNITED\ STATES\ TAX\ COURT\ REPORTS?\s{1,} \((\d{1,4})\)
tax_court_reports_regex ==
    <<Group(1, <<Rep(Class("[0-9]"), 1, 4)>>), AtLeast(Class("\\s"), 1)>>
    \o Lit(<<"U","N","I","T","E","D"," ","S","T","A","T","E","S"," ","T","A","X"," ","C","O","U","R","T"," ","R","E","P","O","R","T">>)
    \o <<Rep(Chr("S"), 0, 1), AtLeast(Class("\\s"), 1), One(Chr("(")),
         Group(2, <<Rep(Class("\\d"), 1, 4)>>), One(Chr(")"))>>

\* (T\.\ ?C\.\s((Memo\.?)|(Summary\ Opinion))\s{1,}([0-9]{4}).([0-9]{1,3})\b)
MemoSummaryForm ==
    <<Group(2,
        Lit(<<"T",".">>) \o <<Rep(Chr(" "), 0, 1)>> \o Lit(<<"C",".">>)
        \o <<One(Class("\\s")),
             Group(3, <<Alt(<<Group(4, Lit(<<"M","e","m","o">>) \o <<Rep(Chr("."), 0, 1)>>)>>,
                            <<Group(5, Lit(<<"S","u","m","m","a","r","y"," ","O","p","i","n","i","o","n">>))>>)>>),
             AtLeast(Class("\\s"), 1),
             Group(6, <<Rep(Class("[0-9]"), 4, 4)>>),
             One(Class(".")),
             Group(7, <<Rep(Class("[0-9]"), 1, 3)>>),
             WordBoundary>>)>>

\* ([0-9]{1,4})\s{1,}(T\.\ ?C\.\ No\.)\s{1,}(\d{1,4})
NumberedForm ==
    <<Group(8, <<Rep(Class("[0-9]"), 1, 4)>>),
      AtLeast(Class("\\s"), 1),
      Group(9, Lit(<<"T",".">>) \o <<Rep(Chr(" "), 0, 1)>> \o Lit(<<"C","."," ","N","o",".">>)),
      AtLeast(Class("\\s"), 1),
      Group(10, <<Rep(Class("\\d"), 1, 4)>>)>>

\* ( MemoSummaryForm | NumberedForm )
tax_court_alt_regex == <<Group(1, <<Alt(MemoSummaryForm, NumberedForm)>>)>>

\* the dictionary built at lines 161-164
NewMetadata ==
    [Citation |-> [type |-> "SPECIALTY", volume |-> Unset, page |-> Unset, reporter |-> Unset],
     OpinionCluster |-> [precedential_status |-> ""]]

SetCitation(md, reporter, volume, page, st) ==
    [Citation |-> [type |-> md.Citation.type, volume |-> volume, page |-> page,
                   reporter |-> reporter],
     OpinionCluster |-> [precedential_status |-> st]]

\* the alternate branch without the  if match:  test of line 198
AlternateBranch_NoMatchTest(t, md) ==
    LET match == Search(tax_court_alt_regex, t)
    IN  SetCitation(md, md.Citation.reporter,
                    MatchGroup(t, match, 6), MatchGroup(t, match, 7), "Unpublished")

\* lines 198-211: the branch taken when the primary regex did not match
AlternateBranch(t, md) ==
    LET match == Search(tax_court_alt_regex, t)
        text == MatchText(t, match)
    IN  IF ~match.ok THEN md
        ELSE IF Contains(text, <<"N","o",".">>)
             THEN SetCitation(md, Str(<<"T",".","C",".">>),
                              MatchGroup(t, match, 8), MatchGroup(t, match, 10), "Published")
             ELSE LET reporter ==
                        IF Contains(text, <<"M","e","m","o">>)
                        THEN Str(<<"T",".","C","."," ","M","e","m","o",".">>)
                        ELSE IF Contains(text, <<"S","u","m","m","a","r","y">>)
                        THEN Str(<<"T",".","C","."," ","S","u","m","m","a","r","y"," ","O","p","i","n","i","o","n">>)
                        ELSE md.Citation.reporter
                  IN  SetCitation(md, reporter,
                                  MatchGroup(t, match, 6), MatchGroup(t, match, 7), "Unpublished")

\* extract_from_text with the alternate regex searched first
ExtractFromText_AlternateFirst(t) ==
    LET alt == Search(tax_court_alt_regex, t)
        match == Search(tax_court_reports_regex, t)
    IN  IF alt.ok \/ ~match.ok
        THEN [metadata |-> AlternateBranch(t, NewMetadata),
              searched |-> <<"tax_court_alt_regex", "tax_court_reports_regex">>]
        ELSE [metadata |-> SetCitation(NewMetadata, Str(<<"T",".","C",".">>),
                                       MatchGroup(t, match, 1), MatchGroup(t, match, 2),
                                       "Published"),
              searched |-> <<"tax_court_alt_regex", "tax_court_reports_regex">>]

\* lines 161-213: the returned dictionary and the regexes searched, in order
ExtractFromText(t) ==
    LET match == Search(tax_court_reports_regex, t)
    IN  IF match.ok
        THEN [metadata |-> SetCitation(NewMetadata, Str(<<"T",".","C",".">>),
                                       MatchGroup(t, match, 1), MatchGroup(t, match, 2),
                                       "Published"),
              searched |-> <<"tax_court_reports_regex">>]
        ELSE [metadata |-> AlternateBranch(t, NewMetadata),
              searched |-> <<"tax_court_reports_regex", "tax_court_alt_regex">>]

(***************************************************************************)
(* The scraped texts extract_from_text is applied to: an optional lead-in, *)
(* then a citation written with a choice of letter case and of the         *)
(* whitespace at each place the citation has a space.                      *)
(***************************************************************************)
MaxGap == 2

RECURSIVE Spaces(_)
Spaces(n) == IF n = 0 THEN <<>> ELSE <<" ">> \o Spaces(n - 1)

OneSpace == <<" ">>
Gaps == {Spaces(n) : n \in 1..MaxGap} \cup {<<"\t">>}

ApplyCase(cas, s) ==
    CASE cas = "upper" -> Upper(s)
      [] cas = "lower" -> Lower(s)
      [] OTHER -> s

LeadIns ==
    { <<>>,
      <<"S","e","e"," ">>,
      <<"T",".","C","."," ","M","e","m","o"," ","2","0","1","2","-","1",";"," ">>,
      <<"4","5"," ","T",".","C","."," ","N","o","."," ","3",","," ">> }

\* texts that are not an instance of the three citation forms
OtherTexts ==
    { <<>>,
      <<"T",".","C","."," ","M","e","m","o"," ","2","0","1","2","-","1","2","3","4">>,
      <<"1","2","3","4","5"," ","T",".","C","."," ","N","o","."," ","3">>,
      <<"T",".","C","."," ","M","e","m","o"," ","2","0","1","2","3","4">>,
      <<"D","o","c","k","e","t"," ","N","o","."," ","1","2","3","-","4","5">>,
      <<"T",".","C",".","M","e","m","o"," ","2","0","1","2","-","1">>,
      <<"1","3","8"," ","U","n","i","t","e","d"," ","S","t","a","t","e","s"," ","T","a","x"," ","C","o","u","r","t"," ","R","e","p","o","r","t"," ","(","1","2","3","4","5",")">> }

TC(c) == ApplyCase(c.cas, IF c.spaced THEN <<"T","."," ","C",".">> ELSE <<"T",".","C",".">>)

\* the citation of a text, by form; g1 and g2 stand where the regex has \s{1,},
\* gi and gj where it has one literal space or one \s
CiteBody(c) ==
    CASE c.form = "reports" ->
            <<"1","3","8">> \o c.g1 \o ApplyCase(c.cas, <<"U","n","i","t","e","d">>) \o c.gi
            \o ApplyCase(c.cas, <<"S","t","a","t","e","s"," ","T","a","x"," ","C","o","u","r","t"," ","R","e","p","o","r","t">>)
            \o (IF c.var THEN ApplyCase(c.cas, <<"s">>) ELSE <<>>)
            \o c.g2 \o <<"(","1",")">>
      [] c.form = "memo" ->
            TC(c) \o c.gi \o ApplyCase(c.cas, <<"M","e","m","o">>)
            \o (IF c.var THEN <<".">> ELSE <<>>)
            \o c.g1 \o <<"2","0","1","2","-","1">>
      [] c.form = "summary" ->
            TC(c) \o c.gi \o ApplyCase(c.cas, <<"S","u","m","m","a","r","y">>) \o c.gj
            \o ApplyCase(c.cas, <<"O","p","i","n","i","o","n">>)
            \o c.g1 \o <<"2","0","1","2","-","1","2">>
      [] c.form = "numbered" ->
            <<"4","5">> \o c.g1 \o TC(c) \o c.gi \o ApplyCase(c.cas, <<"N","o",".">>)
            \o c.g2 \o <<"3">>
      [] OTHER -> c.body

TextOf(c) == c.lead \o CiteBody(c)

Cases == {"written", "upper", "lower"}

Cite(form, lead, cas, g1, g2, gi, gj, var, spaced, body) ==
    [form |-> form, lead |-> lead, cas |-> cas, g1 |-> g1, g2 |-> g2, gi |-> gi,
     gj |-> gj, var |-> var, spaced |-> spaced, body |-> body]

Cites ==
    {Cite("reports", l, c, g1, g2, gi, OneSpace, v, FALSE, <<>>) :
        l \in LeadIns, c \in Cases, g1 \in Gaps, g2 \in Gaps, gi \in Gaps, v \in BOOLEAN}
    \cup {Cite("memo", l, c, g1, OneSpace, gi, OneSpace, v, s, <<>>) :
        l \in LeadIns, c \in Cases, g1 \in Gaps, gi \in Gaps, v \in BOOLEAN, s \in BOOLEAN}
    \cup {Cite("summary", l, c, g1, OneSpace, gi, gj, FALSE, s, <<>>) :
        l \in LeadIns, c \in Cases, g1 \in Gaps, gi \in Gaps, gj \in Gaps, s \in BOOLEAN}
    \cup {Cite("numbered", l, c, g1, g2, gi, OneSpace, FALSE, s, <<>>) :
        l \in LeadIns, c \in Cases, g1 \in Gaps, g2 \in Gaps, gi \in Gaps, s \in BOOLEAN}
    \cup {Cite("other", l, "written", OneSpace, OneSpace, OneSpace, OneSpace, FALSE, FALSE, b) :
        l \in LeadIns, b \in OtherTexts}

\* the same text with one space wherever the citation has whitespace
SingleSpaced(c) == [c EXCEPT !.g1 = OneSpace, !.g2 = OneSpace, !.gi = OneSpace, !.gj = OneSpace]

\* the values of the variables a specification does not use
NoCite == Cite("other", <<>>, "written", OneSpace, OneSpace, OneSpace, OneSpace, FALSE, FALSE, <<>>)
NoCall == [op |-> "none", d |-> 0, outcome |-> "none", n |-> 0]

IdleCite ==
    /\ cite = NoCite
    /\ scraped_text = <<>>
    /\ metadata = NewMetadata
    /\ searched = <<>>
NoDocument == [none |-> TRUE, rows |-> <<>>]       \* self.html = None
Document(rows) == [none |-> FALSE, rows |-> rows]   \* a parsed page and its <tr> rows
NoParsed ==
    [done |-> {}, raised |-> FALSE, download_urls |-> <<>>, case_names |-> <<>>,
     precedential_statuses |-> <<>>, case_dates |-> <<>>]

IdleRows ==
    /\ html = NoDocument
    /\ parsed = NoParsed
IdleBack ==
    /\ status = "None"
    /\ case_date = 0
    /\ backwards_days = 14
    /\ downloads = <<>>
    /\ last_call = NoCall
IdleDates == back_scrape_iterable = <<>>

citeVars == <<cite, scraped_text, metadata, searched>>
rowVars == <<html, parsed>>
backVars == <<status, case_date, backwards_days, downloads, last_call>>
dateVars == <<back_scrape_iterable>>

InitCite ==
    /\ pc = "call"
    /\ cite \in Cites
    /\ scraped_text = TextOf(cite)
    /\ metadata = NewMetadata
    /\ searched = <<>>
    /\ IdleRows /\ IdleBack /\ IdleDates

\* one call of extract_from_text(scraped_text)
extract_from_text ==
    /\ pc = "call"
    /\ LET r == ExtractFromText(scraped_text)
       IN  /\ metadata' = r.metadata
           /\ searched' = r.searched
    /\ pc' = "done"
    /\ UNCHANGED <<cite, scraped_text, rowVars, backVars, dateVars>>

NextCite == extract_from_text

SpecCite == InitCite /\ [][NextCite]_vars

(***************************************************************************)
(* Citation extraction: the claims                                         *)
(***************************************************************************)
Primary == Search(tax_court_reports_regex, scraped_text)
Alternate == Search(tax_court_alt_regex, scraped_text)

Reporter_TC == Str(<<"T",".","C",".">>)
Reporter_Memo == Str(<<"T",".","C","."," ","M","e","m","o",".">>)
Reporter_Summary == Str(<<"T",".","C","."," ","S","u","m","m","a","r","y"," ","O","p","i","n","i","o","n">>)

\* C2: whenever the primary grammar matches the text, the result has reporter
\* "T.C.", the volume and page of that match and status "Published", and the
\* alternate regex was never searched; a well-formed "138 United States Tax
\* Court Report(s) (1)" gives volume "138" and page "1" whatever precedes it.
C2_PrimaryFirst ==
    pc = "done" =>
        LET match == Primary
        IN  /\ match.ok =>
                /\ metadata.Citation.reporter = Reporter_TC
                /\ metadata.Citation.volume = MatchGroup(scraped_text, match, 1)
                /\ metadata.Citation.page = MatchGroup(scraped_text, match, 2)
                /\ metadata.OpinionCluster.precedential_status = "Published"
                /\ searched = <<"tax_court_reports_regex">>
            /\ (cite.form = "reports" /\ cite.gi = OneSpace) =>
                /\ match.ok
                /\ metadata.Citation.volume = Str(<<"1","3","8">>)
                /\ metadata.Citation.page = Str(<<"1">>)

\* C2 witness: the primary grammar matched a text in which a T.C. Memo citation
\* stands earlier
C2_Witness ==
    /\ pc = "done"
    /\ Primary.ok
    /\ Alternate.ok
    /\ Alternate.start < Primary.start
    /\ metadata.Citation.volume = Str(<<"1","3","8">>)

\* C3: when the primary grammar does not match and the first alternate match is
\* the numbered form, in any letter case, the result has reporter "T.C.", the
\* volume before "T.C.", the page after "No." and status "Published".
C3_NumberedForm ==
    LET match == Alternate
    IN  (pc = "done" /\ ~Primary.ok /\ match.ok /\ match.caps[8] # NoSpan) =>
            /\ metadata.Citation.reporter = Reporter_TC
            /\ metadata.Citation.volume = MatchGroup(scraped_text, match, 8)
            /\ metadata.Citation.page = MatchGroup(scraped_text, match, 10)
            /\ metadata.OpinionCluster.precedential_status = "Published"

\* C4: when the primary grammar does not match and the first alternate match is
\* the Memorandum/Summary form, in any letter case, volume is the year, page the
\* ordinal, status "Unpublished", and the reporter is set: "T.C. Memo." for a
\* match containing Memo, "T.C. Summary Opinion" for one containing Summary.
C4_MemoSummaryForm ==
    LET match == Alternate
    IN  (pc = "done" /\ ~Primary.ok /\ match.ok /\ match.caps[2] # NoSpan) =>
            /\ metadata.Citation.volume = MatchGroup(scraped_text, match, 6)
            /\ metadata.Citation.page = MatchGroup(scraped_text, match, 7)
            /\ metadata.OpinionCluster.precedential_status = "Unpublished"
            /\ metadata.Citation.reporter =
                  IF Contains(Lower(MatchText(scraped_text, match)), <<"m","e","m","o">>)
                  THEN Reporter_Memo ELSE Reporter_Summary

\* the citation of the text is written with more than the regex allows at a
\* place where it has one literal space (or one \s, after "T.C." in the
\* Memorandum/Summary form)
RigidGapWidened(c) ==
    CASE c.form = "reports" -> c.gi # OneSpace
      [] c.form = "numbered" -> c.gi # OneSpace
      [] c.form = "memo" -> Len(c.gi) > 1
      [] c.form = "summary" -> Len(c.gi) > 1 \/ c.gj # OneSpace
      [] OTHER -> FALSE

\* C8 as stated: any run of spaces or tabs where the citation has a space gives
\* the result of the single-spaced text.
C8_AnyWhitespace ==
    pc = "done" => metadata = ExtractFromText(TextOf(SingleSpaced(cite))).metadata

\* C8 amended: runs of spaces or tabs are tolerated where the regexes have
\* \s{1,} (after the volume, before "(page)", before the year, after "No.");
\* inside "United States Tax Court Reports", "Summary Opinion" and "T.C. No."
\* exactly one space is required, and after "T.C." in the Memorandum/Summary
\* form exactly one whitespace character: a citation written wider there is
\* not recognised, and the result is that of the text before it.
C8_FlexibleWhitespace ==
    pc = "done" =>
        /\ (cite.gi = OneSpace /\ cite.gj = OneSpace) =>
              metadata = ExtractFromText(TextOf(SingleSpaced(cite))).metadata
        /\ RigidGapWidened(cite) => metadata = ExtractFromText(cite.lead).metadata

\* C8 witness: a citation with two spaces after the volume and a tab before the
\* page was recognised
C8_Witness ==
    /\ pc = "done"
    /\ cite.form = "reports"
    /\ cite.lead = <<>>
    /\ cite.g1 = <<" ", " ">>
    /\ cite.g2 = <<"\t">>
    /\ cite.gi = OneSpace
    /\ metadata.Citation.volume = Str(<<"1","3","8">>)
    /\ metadata.Citation.page = Str(<<"1">>)

\* C9: when neither grammar matches, extract_from_text returns the dictionary
\* it started with: no volume, page or reporter, and status "".
C9_NoMatch ==
    (pc = "done" /\ ~Primary.ok /\ ~Alternate.ok) =>
        /\ metadata.Citation.volume = Unset
        /\ metadata.Citation.page = Unset
        /\ metadata.Citation.reporter = Unset
        /\ metadata.OpinionCluster.precedential_status = ""
        /\ searched = <<"tax_court_reports_regex", "tax_court_alt_regex">>

\* C9 witness: a text that is nearly a citation (two spaces inside the reporter
\* name) was processed and left every field unset
C9_Witness ==
    /\ pc = "done"
    /\ cite.form = "reports"
    /\ cite.gi = <<" ", " ">>
    /\ cite.lead = <<"S","e","e"," ">>
    /\ ~Primary.ok
    /\ ~Alternate.ok
    /\ metadata = NewMetadata

(***************************************************************************)
(* The result rows: _get_download_urls, _get_case_names,                   *)
(* _get_precedential_statuses, _get_case_dates (tax.py 84-139)             *)
(*                                                                         *)
(* A page is the sequence of its <tr> elements in document order; a row    *)
(* has its class attribute, the text of its <td> children and the href     *)
(* attributes found under it.                                              *)
(***************************************************************************)
Row(class, tds, hrefs) == [class |-> class, tds |-> tds, hrefs |-> hrefs]

\* self.base_path: //tr[@class="ResultsOddRow" or @class="ResultsEvenRow"]
base_path(doc) ==
    SelectSeq(doc.rows, LAMBDA r : r.class = "ResultsOddRow" \/ r.class = "ResultsEvenRow")

\* every <td> under the rows, whatever its position
RECURSIVE TdOfRows_AnyPosition(_, _)
TdOfRows_AnyPosition(rows, n) ==
    IF Len(rows) = 0 THEN <<>>
    ELSE Head(rows).tds \o TdOfRows_AnyPosition(Tail(rows), n)

\* base_path + "//td[n]": the n-th <td> of each row that has one
RECURSIVE TdOfRows(_, _)
TdOfRows(rows, n) ==
    IF Len(rows) = 0 THEN <<>>
    ELSE (IF Len(Head(rows).tds) >= n THEN <<Head(rows).tds[n]>> ELSE <<>>)
         \o TdOfRows(Tail(rows), n)

\* base_path + "//@href": every href under the rows
RECURSIVE HrefOfRows(_)
HrefOfRows(rows) ==
    IF Len(rows) = 0 THEN <<>>
    ELSE Head(rows).hrefs \o HrefOfRows(Tail(rows))

Q_ID == <<"?","I","D">>
SearchHash == <<"O","p","i","n","i","o","n","S","e","a","r","c","h",".","a","s","p","x","#">>
ViewerID == <<"O","p","i","n","i","o","n","V","i","e","w","e","r",".","a","s","p","x","?","I","D","=">>

\* a rewrite that turns the hash into ?ID= and leaves the page name
RewriteHref_HashOnly(href) ==
    IF Contains(href, Q_ID) THEN href ELSE Replace(href, <<"#">>, <<"?","I","D","=">>)

\* lines 98-103: one href of _get_download_urls
RewriteHref(href) ==
    IF Contains(href, Q_ID) THEN href ELSE Replace(href, SearchHash, ViewerID)

\* lines 95-104
GetDownloadUrls(doc) ==
    LET hrefs == HrefOfRows(base_path(doc))
    IN  [k \in 1..Len(hrefs) |-> RewriteHref(hrefs[k])]

\* lines 107-111
GetCaseNames(doc) ==
    LET tds == TdOfRows(base_path(doc), 1)
    IN  [k \in 1..Len(tds) |->
            Strip(tds[k]) \o <<" ","v","."," ","C","o","m","m","i","s","s","i","o","n","e","r">>]

\* lines 122-130: one status label
ClassifyStatus(td) ==
    LET st == Lower(Strip(td))
    IN  IF Contains(st, <<"o","p","i","n","i","o","n">>) THEN "Published"
        ELSE IF Contains(st, <<"m","e","m","o","r","a","n","d","u","m">>) THEN "Unpublished"
        ELSE IF Contains(st, <<"s","u","m","m","a","r","y">>) THEN "Unpublished"
        ELSE "Unknown"

\* lines 119-131
GetPrecedentialStatuses(doc) ==
    LET tds == TdOfRows(base_path(doc), 2)
    IN  [k \in 1..Len(tds) |-> ClassifyStatus(tds[k])]

\* datetime.strptime(s, "%m/%d/%Y").date(): month and day of one or two digits
\* (a day may also be a space and a digit), a year of four digits, a day that
\* exists in that month; anything else raises ValueError
DigitSeq == <<"0","1","2","3","4","5","6","7","8","9">>
DigitVal(c) == (CHOOSE k \in 1..Len(DigitSeq) : DigitSeq[k] = c) - 1
AllDigits(f) == \A k \in 1..Len(f) : f[k] \in Digits

RECURSIVE ToInt(_)
ToInt(f) == IF Len(f) = 0 THEN 0 ELSE 10 * ToInt(SubSeq(f, 1, Len(f) - 1)) + DigitVal(f[Len(f)])

IsLeap(y) == (y % 4 = 0) /\ ((y % 100 # 0) \/ (y % 400 = 0))
DaysInMonth(y, m) ==
    IF m = 2 THEN (IF IsLeap(y) THEN 29 ELSE 28)
    ELSE IF m \in {4, 6, 9, 11} THEN 30 ELSE 31

BadDate == [ok |-> FALSE, date |-> <<0, 0, 0>>]

StrpTime(s) ==
    LET slashes == {k \in 1..Len(s) : s[k] = "/"}
    IN  IF Cardinality(slashes) # 2 THEN BadDate
        ELSE LET a == CHOOSE k \in slashes : \A j \in slashes : k <= j
                 b == CHOOSE k \in slashes : \A j \in slashes : k >= j
                 mf == SubSeq(s, 1, a - 1)
                 df0 == SubSeq(s, a + 1, b - 1)
                 df == IF Len(df0) = 2 /\ df0[1] = " " /\ df0[2] # "0" THEN <<df0[2]>> ELSE df0
                 yf == SubSeq(s, b + 1, Len(s))
             IN  IF /\ Len(mf) \in {1, 2} /\ AllDigits(mf) /\ ToInt(mf) \in 1..12
                    /\ Len(df) \in {1, 2} /\ AllDigits(df) /\ ToInt(df) \in 1..31
                    /\ Len(yf) = 4 /\ AllDigits(yf) /\ ToInt(yf) >= 1
                    /\ ToInt(df) <= DaysInMonth(ToInt(yf), ToInt(mf))
                 THEN [ok |-> TRUE, date |-> <<ToInt(yf), ToInt(mf), ToInt(df)>>]
                 ELSE BadDate

\* lines 134-139: the dates, or ValueError raised by the first bad one
GetCaseDates(doc) ==
    LET tds == TdOfRows(base_path(doc), 3)
        dates == [k \in 1..Len(tds) |-> StrpTime(Strip(tds[k]))]
    IN  IF \A k \in 1..Len(tds) : dates[k].ok
        THEN [raised |-> FALSE, dates |-> [k \in 1..Len(tds) |-> dates[k].date]]
        ELSE [raised |-> TRUE, dates |-> <<>>]

(***************************************************************************)
(* The pages the four methods are applied to                               *)
(***************************************************************************)
MaxRows == 3

UstcInOp == <<"h","t","t","p","s",":","/","/","w","w","w",".","u","s","t","a","x","c","o","u","r","t",".","g","o","v","/","U","s","t","c","I","n","O","p","/">>
HashLink(id) == UstcInOp \o SearchHash \o id      \* .../OpinionSearch.aspx#<id>
DirectLink(id) == UstcInOp \o ViewerID \o id      \* .../OpinionViewer.aspx?ID=<id>
HelpLink == UstcInOp \o <<"H","e","l","p",".","a","s","p","x">>
OpinionIds == {<<"1","1","8","1","3">>, <<"1","1","8","1","5">>}

RowSmith ==
    Row("ResultsOddRow",
        << <<" ","S","m","i","t","h"," ">>, <<"T",".","C","."," ","O","p","i","n","i","o","n">>,
           <<"0","1","/","0","2","/","2","0","1","2">> >>,
        << DirectLink(<<"1","1","8","1","5">>) >>)
RowJones ==
    Row("ResultsEvenRow",
        << <<"J","o","n","e","s">>, <<"M","e","m","o","r","a","n","d","u","m"," ","O","p","i","n","i","o","n">>,
           <<"2","/","2","9","/","2","0","1","2">> >>,
        << HashLink(<<"1","1","8","1","3">>) >>)
\* a row of another class: not a result row
RowHeader ==
    Row("ResultsHeader",
        << <<"N","a","m","e">>, <<"S","u","m","m","a","r","y">>, <<"D","a","t","e">> >>,
        << HelpLink >>)
\* result rows that are not well formed: a missing column, two anchors, a bad date
RowNoDate ==
    Row("ResultsOddRow",
        << <<"L","e","e"," ">>, <<"S","u","m","m","a","r","y">> >>,
        << HashLink(<<"1","1","8","1","5">>) >>)
RowTwoAnchors ==
    Row("ResultsEvenRow",
        << <<"E","s","t","a","t","e"," ","o","f"," ","L","e","e">>, <<"O","r","d","e","r">>,
           <<"1","2","/","3","1","/","2","0","1","1">> >>,
        << HelpLink, HashLink(<<"1","1","8","1","3">>) >>)
RowBadDate ==
    Row("ResultsOddRow",
        << <<"S","m","i","t","h">>, <<"M","e","m","o","r","a","n","d","u","m">>,
           <<"2","/","2","9","/","2","0","1","1">> >>,
        << DirectLink(<<"1","1","8","1","3">>) >>)

Rows == {RowSmith, RowJones, RowHeader, RowNoDate, RowTwoAnchors, RowBadDate}

RowSeqs == UNION {[1..n -> Rows] : n \in 0..MaxRows}

Methods == {"_get_download_urls", "_get_case_names", "_get_precedential_statuses",
            "_get_case_dates"}

InitRows ==
    /\ pc = "parse"
    /\ \E rows \in RowSeqs : html = Document(rows)
    /\ parsed = NoParsed
    /\ IdleCite /\ IdleBack /\ IdleDates

_get_download_urls ==
    /\ pc = "parse"
    /\ "_get_download_urls" \notin parsed.done
    /\ parsed' = [parsed EXCEPT !.done = @ \cup {"_get_download_urls"},
                                !.download_urls = GetDownloadUrls(html)]
    /\ UNCHANGED <<pc, html, citeVars, backVars, dateVars>>

_get_case_names ==
    /\ pc = "parse"
    /\ "_get_case_names" \notin parsed.done
    /\ parsed' = [parsed EXCEPT !.done = @ \cup {"_get_case_names"},
                                !.case_names = GetCaseNames(html)]
    /\ UNCHANGED <<pc, html, citeVars, backVars, dateVars>>

_get_precedential_statuses ==
    /\ pc = "parse"
    /\ "_get_precedential_statuses" \notin parsed.done
    /\ parsed' = [parsed EXCEPT !.done = @ \cup {"_get_precedential_statuses"},
                                !.precedential_statuses = GetPrecedentialStatuses(html)]
    /\ UNCHANGED <<pc, html, citeVars, backVars, dateVars>>

\* a ValueError of strptime leaves the method without a return value
_get_case_dates ==
    /\ pc = "parse"
    /\ "_get_case_dates" \notin parsed.done
    /\ LET r == GetCaseDates(html)
       IN  parsed' = [parsed EXCEPT !.done = @ \cup {"_get_case_dates"},
                                    !.raised = r.raised,
                                    !.case_dates = r.dates]
    /\ UNCHANGED <<pc, html, citeVars, backVars, dateVars>>

NextRows ==
    \/ _get_download_urls
    \/ _get_case_names
    \/ _get_precedential_statuses
    \/ _get_case_dates

SpecRows == InitRows /\ [][NextRows]_vars

(***************************************************************************)
(* The result rows: the claims                                             *)
(***************************************************************************)
\* a result row with three columns, one anchor and a date in the third column
WellFormedRow(r) ==
    /\ Len(r.tds) = 3
    /\ Len(r.hrefs) = 1
    /\ StrpTime(Strip(r.tds[3])).ok

C5_DownloadUrls ==
    "_get_download_urls" \in parsed.done =>
        LET hrefs == HrefOfRows(base_path(html))
            urls == parsed.download_urls
        IN  /\ Len(urls) = Len(hrefs)
            /\ \A i \in 1..Len(hrefs) :
                  /\ Contains(hrefs[i], Q_ID) => urls[i] = hrefs[i]
                  /\ ~Contains(hrefs[i], Q_ID) =>
                        urls[i] = Replace(hrefs[i], SearchHash, ViewerID)
                  /\ \A id \in OpinionIds :
                        /\ hrefs[i] = HashLink(id) => urls[i] = DirectLink(id)
                        /\ hrefs[i] = DirectLink(id) => urls[i] = DirectLink(id)
                  /\ hrefs[i] = HelpLink => urls[i] = HelpLink

\* C5 witness: a hash link, a direct link and a link of neither shape were
\* rewritten, in order
C5_Witness ==
    /\ "_get_download_urls" \in parsed.done
    /\ HrefOfRows(base_path(html)) =
          <<HashLink(<<"1","1","8","1","3">>), DirectLink(<<"1","1","8","1","5">>),
            HelpLink, HashLink(<<"1","1","8","1","3">>)>>
    /\ parsed.download_urls =
          <<DirectLink(<<"1","1","8","1","3">>), DirectLink(<<"1","1","8","1","5">>),
            HelpLink, DirectLink(<<"1","1","8","1","3">>)>>

(***************************************************************************)
(* Dates, as Python's date.toordinal() counts them                         *)
(***************************************************************************)
DaysBeforeYear(y) ==
    LET p == y - 1 IN p * 365 + (p \div 4) - (p \div 100) + (p \div 400)

RECURSIVE DaysBeforeMonth(_, _)
DaysBeforeMonth(y, m) ==
    IF m = 1 THEN 0 ELSE DaysBeforeMonth(y, m - 1) + DaysInMonth(y, m - 1)

\* date(y, m, d).toordinal()
ToOrdinal(date) == DaysBeforeYear(date[1]) + DaysBeforeMonth(date[1], date[2]) + date[3]

(***************************************************************************)
(* __init__ (tax.py 25-37): back_scrape_iterable                           *)
(*    [i.date() for i in rrule(WEEKLY, dtstart=date(1995, 9, 25),          *)
(*                             until=date(2018, 11, 13))]                  *)
(* The list is built one date at a time; dates are held as ordinals.       *)
(***************************************************************************)
dtstart == <<1995, 9, 25>>
until == <<2018, 11, 13>>
FirstDay == ToOrdinal(dtstart)
LastDay == ToOrdinal(until)

\* an rrule of frequency DAILY
RRuleNext_Daily(iterable) ==
    IF Len(iterable) = 0 THEN FirstDay ELSE iterable[Len(iterable)] + 1

\* the next occurrence of the WEEKLY rule: dtstart, then every seventh day
RRuleNext(iterable) ==
    IF Len(iterable) = 0 THEN FirstDay ELSE iterable[Len(iterable)] + 7

InitDates ==
    /\ pc = "rrule"
    /\ back_scrape_iterable = <<>>
    /\ IdleCite /\ IdleRows /\ IdleBack

\* the rule yields an occurrence that is not after until
rrule_yield ==
    /\ pc = "rrule"
    /\ RRuleNext(back_scrape_iterable) <= LastDay
    /\ back_scrape_iterable' = Append(back_scrape_iterable, RRuleNext(back_scrape_iterable))
    /\ UNCHANGED <<pc, citeVars, rowVars, backVars>>

\* the next occurrence is after until: the list is complete
rrule_stop ==
    /\ pc = "rrule"
    /\ RRuleNext(back_scrape_iterable) > LastDay
    /\ pc' = "built"
    /\ UNCHANGED <<back_scrape_iterable, citeVars, rowVars, backVars>>

NextDates == rrule_yield \/ rrule_stop

SpecDates == InitDates /\ [][NextDates]_vars

\* C7: the list holds floor((until - dtstart) / 7 days) + 1 dates, the first
\* equal to dtstart, each 7 days after the one before, none later than until.
C7_WeeklyDates ==
    LET b == back_scrape_iterable
    IN  /\ \A i \in 1..Len(b) :
              /\ b[i] <= LastDay
              /\ i = 1 => b[i] = FirstDay
              /\ i > 1 => b[i] - b[i - 1] = 7
        /\ pc = "built" => Len(b) = ((LastDay - FirstDay) \div 7) + 1

\* C7 witness: the complete list: 1208 dates, from 1995-09-25 to 2018-11-12
C7_Witness ==
    /\ pc = "built"
    /\ Len(back_scrape_iterable) = 1208
    /\ back_scrape_iterable[1] = ToOrdinal(<<1995, 9, 25>>)
    /\ back_scrape_iterable[1208] = ToOrdinal(<<2018, 11, 12>>)

(***************************************************************************)
(* _download and _download_backwards (tax.py 39-82, 141-153)               *)
(***************************************************************************)
MaxAnchors == 2
MaxCalls == 3

\* the first anchor dates of back_scrape_iterable
Anchors == {FirstDay + 7 * k : k \in 0..(MaxAnchors - 1)}

\* date.today() of line 30: a day after the historical window
Today == ToOrdinal(<<2018, 11, 20>>)

\* what a call of _download ends with: the html tree of the results page (with
\* or without result rows), None, or the TimeoutException of wait.until
DownloadResults ==
    { [raised |-> FALSE, html |-> Document(<<RowSmith>>)],
      [raised |-> FALSE, html |-> Document(<<>>)],
      [raised |-> FALSE, html |-> NoDocument],
      [raised |-> TRUE, html |-> NoDocument] }

Outcome(r) ==
    IF r.raised THEN "TimeoutException"
    ELSE IF r.html.none THEN "None" ELSE "document"

\* status set whatever _download returned
StatusAfterDownload_Always(result, st) == "200"

\* status never set
StatusAfterDownload_Never(result, st) == st

\* lines 150-153: self.status after self.html = self._download()
StatusAfterDownload(result, st) == IF ~result.none THEN "200" ELSE st

Fetched(d, by, r) ==
    downloads' = [downloads EXCEPT ![d] = Append(@, [by |-> by, outcome |-> Outcome(r)])]

Called(op, d, outcome) ==
    last_call' = [op |-> op, d |-> d, outcome |-> outcome, n |-> last_call.n + 1]

InitBack ==
    /\ pc = "site"
    /\ status = "None"
    /\ case_date = Today
    /\ backwards_days = 14
    /\ html = NoDocument
    /\ downloads = [d \in Anchors \cup {Today} |-> <<>>]
    /\ last_call = NoCall
    /\ parsed = NoParsed
    /\ IdleCite /\ IdleDates

\* _download_backwards(d): lines 142-153.  An exception of _download leaves
\* the method at line 149, before self.html and self.status are assigned.
_download_backwards ==
    /\ pc = "site"
    /\ last_call.n < MaxCalls
    /\ \E d \in Anchors, r \in DownloadResults :
          /\ backwards_days' = 7
          /\ case_date' = d
          /\ Fetched(d, "_download_backwards", r)
          /\ Called("_download_backwards", d, Outcome(r))
          /\ IF r.raised
             THEN UNCHANGED <<html, status>>
             ELSE /\ html' = r.html
                  /\ status' = StatusAfterDownload(r.html, status)
    /\ UNCHANGED <<pc, parsed, citeVars, dateVars>>

\* the framework's parse(): it runs _download only while self.status is None
parse ==
    /\ pc = "site"
    /\ last_call.n < MaxCalls
    /\ IF status = "None"
       THEN \E r \in DownloadResults :
               /\ Fetched(case_date, "parse", r)
               /\ Called("parse", case_date, Outcome(r))
               /\ html' = (IF r.raised THEN html ELSE r.html)
       ELSE /\ Called("parse", case_date, "no fetch")
            /\ UNCHANGED <<html, downloads>>
    /\ UNCHANGED <<pc, status, case_date, backwards_days, parsed, citeVars, dateVars>>

NextBack == _download_backwards \/ parse

SpecBack == InitBack /\ [][NextBack]_vars

\* the step is one call of op
IsCall(op) == last_call'.n = last_call.n + 1 /\ last_call'.op = op

\* C6 as stated: once _download_backwards has fetched a document for an anchor
\* date, no later _download_backwards for that date fetches again.
C6_NoSecondFetch ==
    \A d \in Anchors :
        \A i \in 1..Len(downloads[d]) : \A j \in 1..Len(downloads[d]) :
            (/\ i < j
             /\ downloads[d][i].by = "_download_backwards"
             /\ downloads[d][i].outcome = "document")
            => downloads[d][j].by # "_download_backwards"

\* C6 amended: every _download_backwards call runs _download once, whatever
\* self.status is; what the completion mark prevents is a second fetch by the
\* framework's parse step: a parse that follows a _download_backwards which
\* fetched a document fetches nothing and keeps self.html.
C6_ParseDoesNotFetchAgain ==
    /\ [][(IsCall("parse") /\ last_call.op = "_download_backwards"
                           /\ last_call.outcome = "document")
            => (downloads' = downloads /\ html' = html)]_vars
    /\ [][IsCall("_download_backwards")
            => Len(downloads'[last_call'.d]) = Len(downloads[last_call'.d]) + 1]_vars

\* C6 witness: parse ran after a completed _download_backwards without a fetch
C6_Witness ==
    /\ last_call.op = "parse"
    /\ last_call.outcome = "no fetch"
    /\ status = "200"
    /\ case_date \in Anchors
    /\ downloads[case_date] = <<[by |-> "_download_backwards", outcome |-> "document"]>>

\* C10: self.status changes only in a _download_backwards step whose fetch
\* returned a document, and becomes 200; a _download_backwards whose fetch
\* timed out ends with the TimeoutException, after exactly one _download, with
\* self.status and self.html as they were.
C10_MarkedOnlyAfterDocument ==
    /\ [][status' # status
            => /\ status' = "200"
               /\ IsCall("_download_backwards")
               /\ last_call'.outcome = "document"
               /\ ~html'.none
               /\ case_date' = last_call'.d]_vars
    /\ [][(IsCall("_download_backwards") /\ last_call'.outcome = "TimeoutException")
            => /\ status' = status
               /\ html' = html
               /\ downloads'[last_call'.d] =
                     Append(downloads[last_call'.d],
                            [by |-> "_download_backwards", outcome |-> "TimeoutException"])
               /\ \A d \in DOMAIN downloads : d # last_call'.d => downloads'[d] = downloads[d]]_vars

\* C10 witness: a _download_backwards timed out: one fetch, nothing marked
C10_Witness ==
    /\ last_call.op = "_download_backwards"
    /\ last_call.outcome = "TimeoutException"
    /\ status = "None"
    /\ html = NoDocument
    /\ downloads[last_call.d] = <<[by |-> "_download_backwards", outcome |-> "TimeoutException"]>>

(***************************************************************************)
(* The whole model: the four parts side by side                            *)
(***************************************************************************)
Init == InitCite \/ InitRows \/ InitDates \/ InitBack

Next == NextCite \/ NextRows \/ NextDates \/ NextBack

Spec == Init /\ [][Next]_vars

====
